---------------------------- MODULE Spec2Model ----------------------------
(***************************************************************************)
(* A model of new_hka.py: the interactive flight-history lookup for Hong   *)
(* Kong International Airport.                                             *)
(*                                                                         *)
(* Representation.  A Python str is a sequence of one-character strings,   *)
(* so that split, replace, upper, strip, startswith, "in" and int() are    *)
(* computed character by character as the interpreter computes them.  A    *)
(* Python dict is a function whose DOMAIN is its set of keys, so that      *)
(* d.get(k, default) distinguishes an absent key from a present one.       *)
(* None is the one-element sequence None below: its element is not a       *)
(* single character, so it differs from every modelled str.                *)
(***************************************************************************)
EXTENDS Integers, Sequences, FiniteSets, TLC

VARIABLES
    mode,            \* main: "D" or "A"
    pc,              \* position of main: "prompt", "fetching", "exited", "crashed"
    flight_number,   \* main: the normalised request of the running query
    today,           \* get_past_dates: datetime.now().date() of the running query
    idx,             \* number of dates of the window already fetched
    all_flights,     \* main: the records appended so far
    outcome,         \* what the last finished query printed
    error,           \* the exception that left main, or "none"
    fetched,         \* history: the positions in dates passed to fetch_flight_data
    nFailed,         \* history: fetches of this window that raised RequestException
    oracle,          \* history: the flight requested, the matches expected so far
                     \* and the window positions of the dates they come from
    scheduled_time,  \* is_on_time: first argument
    actual_time,     \* is_on_time: second argument
    shape,           \* history: how the two arguments of is_on_time were built
    verdict          \* is_on_time: the value returned, "pending" before the call

vars == <<mode, pc, flight_number, today, idx, all_flights, outcome, error,
          fetched, nFailed, oracle,
          scheduled_time, actual_time, shape, verdict>>

mainVars == <<mode, pc, flight_number, today, idx, all_flights, outcome, error,
              fetched, nFailed, oracle>>

classifyVars == <<scheduled_time, actual_time, shape, verdict>>

---------------------------------------------------------------------------
(* Python str and list primitives                                          *)

None == <<"None">>

NA == <<"N", "/", "A">>

Whitespace == {" ", "\t"}

Digits == {"0", "1", "2", "3", "4", "5", "6", "7", "8", "9"}

DigitVal(c) ==
    CASE c = "0" -> 0 [] c = "1" -> 1 [] c = "2" -> 2 [] c = "3" -> 3
      [] c = "4" -> 4 [] c = "5" -> 5 [] c = "6" -> 6 [] c = "7" -> 7
      [] c = "8" -> 8 [] c = "9" -> 9

\* str.upper() on the letters the model uses; other characters are unchanged.
UpperChar(c) ==
    CASE c = "c" -> "C" [] c = "x" -> "X" [] c = "h" -> "H"
      [] c = "q" -> "Q" [] c = "d" -> "D" [] c = "a" -> "A"
      [] OTHER -> c

\* str.lower() on the letters the model uses.
LowerChar(c) ==
    CASE c = "C" -> "c" [] c = "X" -> "x" [] c = "H" -> "h"
      [] c = "Q" -> "q" [] c = "D" -> "d" [] c = "A" -> "a"
      [] OTHER -> c

upper(s) == [i \in 1..Len(s) |-> UpperChar(s[i])]

lower(s) == [i \in 1..Len(s) |-> LowerChar(s[i])]

\* s.replace(" ", ""): only the space character U+0020 is removed.
replace_space(s) == SelectSeq(s, LAMBDA c : c # " ")

RECURSIVE lstrip(_)
lstrip(s) == IF s # <<>> /\ Head(s) \in Whitespace THEN lstrip(Tail(s)) ELSE s

RECURSIVE rstrip(_)
rstrip(s) ==
    IF s # <<>> /\ s[Len(s)] \in Whitespace
    THEN rstrip(SubSeq(s, 1, Len(s) - 1)) ELSE s

\* s.strip()
strip(s) == rstrip(lstrip(s))

\* s.startswith(p)
startswith(s, p) == Len(s) >= Len(p) /\ SubSeq(s, 1, Len(p)) = p

\* The positions at which sub occurs in s.
Occurrences(s, sub) ==
    {i \in 1..(Len(s) - Len(sub) + 1) : SubSeq(s, i, i + Len(sub) - 1) = sub}

\* sub in s
contains(s, sub) == Occurrences(s, sub) # {}

Max(S) == CHOOSE x \in S : \A y \in S : y <= x

Min(S) == CHOOSE x \in S : \A y \in S : x <= y

\* s.split(sub)[-1]: the text after the last occurrence of sub, the whole of s
\* when sub does not occur.  (The separator used, "At gate ", cannot overlap
\* itself, so the last piece of the left-to-right split starts after the last
\* occurrence.)
split_last(s, sub) ==
    IF Occurrences(s, sub) = {} THEN s
    ELSE SubSeq(s, Max(Occurrences(s, sub)) + Len(sub), Len(s))

\* s.split(c) for a one-character separator: the fields between separators.
RECURSIVE split_char(_, _)
split_char(s, c) ==
    IF Occurrences(s, <<c>>) = {} THEN <<s>>
    ELSE LET i == Min(Occurrences(s, <<c>>))
         IN  <<SubSeq(s, 1, i - 1)>> \o split_char(SubSeq(s, i + 1, Len(s)), c)

\* s.split(): the maximal runs of non-whitespace characters.
RECURSIVE split_ws(_)
split_ws(s) ==
    LET t == lstrip(s)
    IN  IF t = <<>> THEN <<>>
        ELSE LET ws == {i \in 1..Len(t) : t[i] \in Whitespace}
                 e  == IF ws = {} THEN Len(t) + 1 ELSE Min(ws)
             IN  <<SubSeq(t, 1, e - 1)>> \o split_ws(SubSeq(t, e, Len(t)))

\* The body of an integer literal after the sign: digits, with single
\* underscores allowed between digits.
IntBody(u) ==
    /\ u # <<>>
    /\ \A i \in 1..Len(u) : u[i] \in Digits \cup {"_"}
    /\ u[1] \in Digits /\ u[Len(u)] \in Digits
    /\ \A i \in 1..(Len(u) - 1) : ~(u[i] = "_" /\ u[i + 1] = "_")

Unsigned(t) == IF t # <<>> /\ Head(t) \in {"+", "-"} THEN Tail(t) ELSE t

\* Whether int(s) returns (TRUE) or raises ValueError (FALSE).
int_ok(s) == IntBody(Unsigned(strip(s)))

RECURSIVE DigitsValue(_, _)
DigitsValue(u, acc) ==
    IF u = <<>> THEN acc
    ELSE IF Head(u) = "_" THEN DigitsValue(Tail(u), acc)
    ELSE DigitsValue(Tail(u), acc * 10 + DigitVal(Head(u)))

\* int(s), for s with int_ok(s).
int(s) ==
    LET t == strip(s)
    IN  IF Head(t) = "-" THEN 0 - DigitsValue(Tail(t), 0)
        ELSE DigitsValue(Unsigned(t), 0)

---------------------------------------------------------------------------
(* is_on_time                                                              *)

OnTimeWindow == 15

\* Whether "h, m = map(int, t.split(':'))" completes: exactly two fields, each
\* an integer literal.  Otherwise it raises ValueError.
unpack_ok(t) ==
    LET f == split_char(t, ":")
    IN  Len(f) = 2 /\ int_ok(f[1]) /\ int_ok(f[2])

\* hours * 60 + minutes of a time string with unpack_ok.
total_minutes(t) ==
    LET f == split_char(t, ":") IN int(f[1]) * 60 + int(f[2])

\* Lines 95-100: the exception raised inside the try block, "none" when the
\* block runs to its return.  On str arguments split cannot fail, and both
\* int() and the unpacking into two names raise ValueError.
raised_in_try(sched, actual) ==
    IF unpack_ok(sched) /\ unpack_ok(actual) THEN "none" ELSE "ValueError"

\* An except clause that names TypeError alone.
CaughtTypeErrorOnly == {"TypeError"}

\* Line 101: except (ValueError, TypeError)
CaughtByIsOnTime == {"ValueError", "TypeError"}

\* is_on_time with the comparison "<" in place of "<=".
is_on_time_strict(sched, actual) ==
    IF sched = NA \/ actual = NA THEN "Unknown"
    ELSE IF raised_in_try(sched, actual) \in CaughtByIsOnTime THEN "Unknown"
    ELSE IF raised_in_try(sched, actual) # "none" THEN raised_in_try(sched, actual)
    ELSE IF total_minutes(actual) < total_minutes(sched) + OnTimeWindow
         THEN "On Time"
         ELSE "Delayed"

\* Lines 91-102.  The value returned; the name of the exception when one
\* leaves the function.
is_on_time(sched, actual) ==
    IF sched = NA \/ actual = NA THEN "Unknown"
    ELSE IF raised_in_try(sched, actual) \in CaughtByIsOnTime THEN "Unknown"
    ELSE IF raised_in_try(sched, actual) # "none" THEN raised_in_try(sched, actual)
    ELSE IF total_minutes(actual) <= total_minutes(sched) + OnTimeWindow
         THEN "On Time"
         ELSE "Delayed"

---------------------------------------------------------------------------
(* get_past_dates                                                          *)

WindowDays == 10

DigitChar(n) ==
    CASE n = 0 -> "0" [] n = 1 -> "1" [] n = 2 -> "2" [] n = 3 -> "3"
      [] n = 4 -> "4" [] n = 5 -> "5" [] n = 6 -> "6" [] n = 7 -> "7"
      [] n = 8 -> "8" [] n = 9 -> "9"

TwoDigits(n) == <<DigitChar(n \div 10), DigitChar(n % 10)>>

FourDigits(n) == TwoDigits(n \div 100) \o TwoDigits(n % 100)

\* date.strftime("%Y-%m-%d") of the calendar day <<year, month, day>>.
strftime(dt) == FourDigits(dt[1]) \o <<"-">> \o TwoDigits(dt[2]) \o <<"-">> \o TwoDigits(dt[3])

IsLeap(y) == (y % 4 = 0 /\ y % 100 # 0) \/ y % 400 = 0

DaysInMonth(y, m) ==
    IF m = 2 THEN (IF IsLeap(y) THEN 29 ELSE 28)
    ELSE IF m \in {4, 6, 9, 11} THEN 30 ELSE 31

\* dt - timedelta(days=1)
PrevDay(dt) ==
    IF dt[3] > 1 THEN <<dt[1], dt[2], dt[3] - 1>>
    ELSE IF dt[2] > 1 THEN <<dt[1], dt[2] - 1, DaysInMonth(dt[1], dt[2] - 1)>>
    ELSE <<dt[1] - 1, 12, 31>>

\* dt - timedelta(days=i)
RECURSIVE MinusDays(_, _)
MinusDays(dt, i) == IF i = 0 THEN dt ELSE MinusDays(PrevDay(dt), i - 1)

\* get_past_dates(days) when datetime.now().date() is t: t first.
get_past_dates(t, days) ==
    [i \in 1..days |-> strftime(MinusDays(t, i - 1))]

---------------------------------------------------------------------------
(* dict access                                                             *)

\* d.get(k, default)
Get(d, k, default) == IF k \in DOMAIN d THEN d[k] ELSE default

\* Truthiness of d.get(k): the key is there and its str or list is not empty.
Truthy(d, k) == k \in DOMAIN d /\ d[k] # <<>>

---------------------------------------------------------------------------
(* fetch_flight_data                                                       *)

\* Lines 46-55: the "list" arrays of the well-shaped elements, concatenated.
\* An element that is no dict or has no "list" key is skipped with a warning.
RECURSIVE flight_list_of(_)
flight_list_of(items) ==
    IF items = <<>> THEN <<>>
    ELSE LET entry == Head(items)
         IN  (IF entry.type = "dict" /\ "list" \in DOMAIN entry.val
              THEN entry.val.list ELSE <<>>)
             \o flight_list_of(Tail(items))

\* Line 60: flight_data is there and is a non-empty list.
has_aliases(flight) == Truthy(flight, "flight")

\* The comparison of line 61 without the removal of spaces.
alias_equal_keep_spaces(flight_item, flight_number_arg) ==
    upper(Get(flight_item, "no", <<>>)) = upper(flight_number_arg)

\* Line 61: one alias against the request.
alias_equal(flight_item, flight_number_arg) ==
    upper(replace_space(Get(flight_item, "no", <<>>))) = upper(flight_number_arg)

\* Lines 60-63: any(...) over the aliases of a flight entry.
entry_matches(flight, flight_number_arg) ==
    /\ has_aliases(flight)
    /\ \E i \in 1..Len(flight.flight) : alias_equal(flight.flight[i], flight_number_arg)

\* fetch_flight_data without its except clause: the RequestException leaves
\* the function.
fetch_flight_data_uncaught(resp, flight_number_arg) ==
    IF resp.kind = "error" THEN [raised |-> "RequestException", flights |-> <<>>]
    ELSE IF resp.data.type # "list" THEN [raised |-> "none", flights |-> <<>>]
    ELSE [raised  |-> "none",
          flights |-> SelectSeq(flight_list_of(resp.data.items),
                                LAMBDA f : entry_matches(f, flight_number_arg))]

\* Lines 37-70.  resp is what requests.get / raise_for_status / json gave:
\* [kind |-> "error"] when one of them raised RequestException, else
\* [kind |-> "json", data |-> the decoded body].  The result names the
\* exception that leaves the function ("none": it returned) and the list
\* returned.
fetch_flight_data(resp, flight_number_arg) ==
    IF resp.kind = "error" THEN [raised |-> "none", flights |-> <<>>]
    ELSE IF resp.data.type # "list" THEN [raised |-> "none", flights |-> <<>>]
    ELSE [raised  |-> "none",
          flights |-> SelectSeq(flight_list_of(resp.data.items),
                                LAMBDA f : entry_matches(f, flight_number_arg))]

---------------------------------------------------------------------------
(* main: one record per matching flight, lines 143-169                     *)

AtGate == <<"A", "t", " ", "g", "a", "t", "e">>

AtGateSp == AtGate \o <<" ">>

DepSp == <<"D", "e", "p", " ">>

arrival_param(m) == IF m = "A" THEN "true" ELSE "false"

status_of(flight) == Get(flight, "status", NA)

\* Line 144
scheduled_of(flight) == Get(flight, "time", Get(flight, "scheduleTime", NA))

\* Line 145
location_field(arrival) == IF arrival = "true" THEN "origin" ELSE "destination"

\* Lines 146-150 raise IndexError when status.split()[1] does not exist.
actual_time_raises(flight, arrival) ==
    /\ ~(arrival = "true" /\ contains(status_of(flight), AtGate))
    /\ arrival = "false" /\ startswith(status_of(flight), DepSp)
    /\ Len(split_ws(status_of(flight))) < 2

\* Lines 146-150
actual_time_of(flight, arrival) ==
    IF arrival = "true" /\ contains(status_of(flight), AtGate)
    THEN split_last(status_of(flight), AtGateSp)
    ELSE IF arrival = "false" /\ startswith(status_of(flight), DepSp)
    THEN split_ws(status_of(flight))[2]
    ELSE Get(flight, "actualTime", NA)

\* Lines 154-155 raise IndexError when the fallback list listAirport is empty.
location_raises(flight, arrival) ==
    /\ ~Truthy(flight, location_field(arrival))
    /\ Get(flight, "listAirport", <<[none |-> NA]>>) = <<>>

\* Lines 154-155
location_of(flight, arrival) ==
    IF Truthy(flight, location_field(arrival))
    THEN Get(flight, location_field(arrival), <<NA>>)[1]
    ELSE Get(Get(flight, "listAirport", <<[none |-> NA]>>)[1], "city", NA)

\* flight_info with the gate read in both modes.
flight_info_gate_always(flight, date, flight_number_arg, arrival) ==
    [date           |-> date,
     flight_number  |-> flight_number_arg,
     location       |-> location_of(flight, arrival),
     scheduled_time |-> scheduled_of(flight),
     actual_time    |-> actual_time_of(flight, arrival),
     status         |-> status_of(flight),
     on_time        |-> is_on_time(scheduled_of(flight), actual_time_of(flight, arrival)),
     baggage        |-> IF arrival = "true" THEN Get(flight, "baggage", NA) ELSE None,
     hall           |-> IF arrival = "true" THEN Get(flight, "hall", NA) ELSE None,
     stand          |-> IF arrival = "true" THEN Get(flight, "stand", NA) ELSE None,
     terminal       |-> Get(flight, "terminal", NA),
     aisle          |-> IF arrival = "false" THEN Get(flight, "aisle", NA) ELSE None,
     gate           |-> Get(flight, "gate", NA)]

\* Lines 151-168
flight_info(flight, date, flight_number_arg, arrival) ==
    [date           |-> date,
     flight_number  |-> flight_number_arg,
     location       |-> location_of(flight, arrival),
     scheduled_time |-> scheduled_of(flight),
     actual_time    |-> actual_time_of(flight, arrival),
     status         |-> status_of(flight),
     on_time        |-> is_on_time(scheduled_of(flight), actual_time_of(flight, arrival)),
     baggage        |-> IF arrival = "true" THEN Get(flight, "baggage", NA) ELSE None,
     hall           |-> IF arrival = "true" THEN Get(flight, "hall", NA) ELSE None,
     stand          |-> IF arrival = "true" THEN Get(flight, "stand", NA) ELSE None,
     terminal       |-> Get(flight, "terminal", NA),
     aisle          |-> IF arrival = "false" THEN Get(flight, "aisle", NA) ELSE None,
     gate           |-> IF arrival = "false" THEN Get(flight, "gate", NA) ELSE None]

\* Lines 142-169 for the flights of one date: the records appended, and the
\* exception that ends main ("none": every flight was appended).
RECURSIVE append_flights(_, _, _, _)
append_flights(flights, date, flight_number_arg, arrival) ==
    IF flights = <<>> THEN [recs |-> <<>>, raised |-> "none"]
    ELSE IF actual_time_raises(Head(flights), arrival)
            \/ location_raises(Head(flights), arrival)
    THEN [recs |-> <<>>, raised |-> "IndexError"]
    ELSE LET rest == append_flights(Tail(flights), date, flight_number_arg, arrival)
         IN  [recs   |-> <<flight_info(Head(flights), date, flight_number_arg, arrival)>>
                         \o rest.recs,
              raised |-> rest.raised]

---------------------------------------------------------------------------
(* main: the summary and the display, lines 175-217                        *)

Varies == <<"V", "a", "r", "i", "e", "s">>

\* Code point order of the characters of a date string.
Ord(c) == IF c = "-" THEN 45 ELSE 48 + DigitVal(c)

\* a < b on Python str: the first differing character decides, a proper
\* prefix is smaller.
str_lt(a, b) ==
    LET diff == {i \in 1..Min({Len(a), Len(b)}) : a[i] # b[i]}
    IN  IF diff = {} THEN Len(a) < Len(b)
        ELSE Ord(a[Min(diff)]) < Ord(b[Min(diff)])

\* One step of the stable descending sort: x goes after every element whose
\* key is not smaller than its own.
insert_desc(r, x) ==
    LET k == Cardinality({i \in 1..Len(r) : ~str_lt(r[i].date, x.date)})
    IN  SubSeq(r, 1, k) \o <<x>> \o SubSeq(r, k + 1, Len(r))

\* One step of a descending sort that puts x before the elements of equal key.
insert_desc_before_ties(r, x) ==
    LET k == Cardinality({i \in 1..Len(r) : str_lt(x.date, r[i].date)})
    IN  SubSeq(r, 1, k) \o <<x>> \o SubSeq(r, k + 1, Len(r))

\* A descending sort that reverses the order of records of equal date, as
\* sorted(...)[::-1] does.
RECURSIVE sorted_ties_reversed(_)
sorted_ties_reversed(s) ==
    IF s = <<>> THEN <<>>
    ELSE insert_desc_before_ties(sorted_ties_reversed(SubSeq(s, 1, Len(s) - 1)),
                                 s[Len(s)])

\* Line 199: sorted(all_flights, key=lambda x: x["date"], reverse=True).
\* Python's sort is stable, also with reverse=True.
RECURSIVE sorted_by_date(_)
sorted_by_date(s) ==
    IF s = <<>> THEN <<>>
    ELSE insert_desc(sorted_by_date(SubSeq(s, 1, Len(s) - 1)), s[Len(s)])

\* The summary that takes some value whenever there is one.
summary_of_any(values) ==
    IF Cardinality(values) >= 1 THEN CHOOSE v \in values : TRUE ELSE Varies

\* Lines 181-184: the one element of the set of values, or "Varies".
summary_of(values) ==
    IF Cardinality(values) = 1 THEN CHOOSE v \in values : TRUE ELSE Varies

NoOutcome ==
    [kind |-> "none", mode |-> "D", flight_number |-> <<>>,
     location |-> None, scheduled_time |-> None, rows |-> <<>>]

\* display without the branch of lines 175-178.
display_no_empty_branch(flights, m, flight_number_arg) ==
    [kind           |-> "found",
     mode           |-> m,
     flight_number  |-> flight_number_arg,
     location       |-> summary_of({flights[i].location : i \in 1..Len(flights)}),
     scheduled_time |-> summary_of({flights[i].scheduled_time : i \in 1..Len(flights)}),
     rows           |-> sorted_by_date(flights)]

\* Lines 175-217: what the query prints.
display(flights, m, flight_number_arg) ==
    IF flights = <<>>
    THEN [kind |-> "not_found", mode |-> m, flight_number |-> flight_number_arg,
          location |-> None, scheduled_time |-> None, rows |-> <<>>]
    ELSE [kind           |-> "found",
          mode           |-> m,
          flight_number  |-> flight_number_arg,
          location       |-> summary_of({flights[i].location : i \in 1..Len(flights)}),
          scheduled_time |-> summary_of({flights[i].scheduled_time : i \in 1..Len(flights)}),
          rows           |-> sorted_by_date(flights)]

---------------------------------------------------------------------------
(* The environment: what the user types and what the endpoint answers      *)

\* The flight is listed on at most this many days of a window.
MaxMatchDates == 1

\* At most this many fetches of a window fail.
MaxFailures == 3

CX_4 == <<"C", "X", " ", "4">>

cx4 == <<"c", "x", "4">>

CXtab4 == <<"C", "X", "\t", "4">>

HX_6 == <<"H", "X", " ", "6">>

hx6 == <<"h", "x", "6">>

QA_1 == <<"Q", "A", " ", "1">>

ICN == <<"I", "C", "N">>

NRT == <<"N", "R", "T">>

TYO == <<"T", "Y", "O">>

hhmm(h, m) == TwoDigits(h) \o <<":">> \o TwoDigits(m)

\* The lines typed at the prompt that are not flight numbers.
ControlInputs ==
    {<<"q">>, <<" ", "Q">>, <<"d">>, <<"D", " ">>, <<"a">>, <<"A">>, <<>>, <<" ", "\t">>}

\* The flight numbers typed, each with the flight it denotes.
Requests ==
    <<[text |-> <<" ", "c", "x", " ", "4">>, code |-> "CX4"],
      [text |-> <<"H", "X", "6">>,           code |-> "HX6"]>>

\* The days on which the program is run: within a month, and shortly after a
\* new year.
Todays == {<<2025, 6, 12>>, <<2026, 1, 4>>}

\* Flight entries as the endpoint lists them.
e_cxA ==
    [flight |-> <<[no |-> CX_4]>>, status |-> DepSp \o hhmm(14, 22),
     time |-> hhmm(14, 25), destination |-> <<ICN>>, origin |-> <<NRT>>,
     terminal |-> <<"T", "1">>, aisle |-> <<"A">>, gate |-> <<"6", "8">>,
     baggage |-> <<"1", "2">>, hall |-> <<"B">>, stand |-> <<"D", "2">>]

e_cxB ==
    [flight |-> <<[no |-> QA_1], [no |-> cx4], [no |-> CX_4]>>,
     status |-> AtGateSp \o hhmm(14, 41), scheduleTime |-> hhmm(14, 26),
     actualTime |-> hhmm(14, 30), origin |-> <<ICN>>, destination |-> <<ICN>>,
     baggage |-> <<"9">>, gate |-> <<"7">>]

e_cxC ==
    [flight |-> <<[no |-> cx4]>>, status |-> DepSp \o hhmm(14, 41),
     time |-> hhmm(14, 25), scheduleTime |-> hhmm(9, 0),
     origin |-> <<ICN>>, destination |-> <<NRT>>, terminal |-> <<"T", "1">>]

e_tab == [flight |-> <<[no |-> CXtab4]>>, status |-> DepSp \o hhmm(14, 22)]

e_other == [flight |-> <<[no |-> QA_1], [operator |-> CX_4]>>, time |-> hhmm(8, 0)]

e_noflight == [status |-> DepSp \o hhmm(14, 22), time |-> hhmm(14, 25)]

e_emptyflight == [flight |-> <<>>, status |-> AtGateSp \o hhmm(14, 22)]

e_hxA ==
    [flight |-> <<[no |-> HX_6]>>, status |-> AtGate, actualTime |-> hhmm(14, 22),
     time |-> hhmm(14, 25), origin |-> <<>>, listAirport |-> <<[city |-> TYO]>>,
     destination |-> <<ICN>>, hall |-> <<"A">>, aisle |-> <<"C">>]

e_hxB == [flight |-> <<[no |-> hx6]>>, listAirport |-> <<[name |-> TYO]>>]

e_hxC ==
    [flight |-> <<[no |-> HX_6]>>, status |-> DepSp, time |-> hhmm(14, 25),
     origin |-> <<NRT>>, destination |-> <<ICN>>]

e_hxD ==
    [flight |-> <<[no |-> HX_6]>>, status |-> AtGateSp \o hhmm(0, 36),
     time |-> hhmm(0, 45), listAirport |-> <<>>]

Section(flights) == [type |-> "dict", val |-> [list |-> flights]]

Junk == [type |-> "str", val |-> [text |-> <<"x">>]]

NoList == [type |-> "dict", val |-> [date |-> <<"x">>]]

Body(items) == [kind |-> "json", data |-> [type |-> "list", items |-> items]]

\* The answers of the endpoint for one date.  Each comes with the number of
\* its entries that carry the flight, when spaces and case are ignored in the
\* codes (matches) and when all whitespace and case are ignored (matchesWs).
Responses ==
    <<[response  |-> [kind |-> "error"],
       matches   |-> [CX4 |-> 0, HX6 |-> 0],
       matchesWs |-> [CX4 |-> 0, HX6 |-> 0]],
      [response  |-> [kind |-> "json", data |-> [type |-> "dict", items |-> <<>>]],
       matches   |-> [CX4 |-> 0, HX6 |-> 0],
       matchesWs |-> [CX4 |-> 0, HX6 |-> 0]],
      [response  |-> Body(<<Junk, NoList, Section(<<e_noflight, e_emptyflight, e_other>>)>>),
       matches   |-> [CX4 |-> 0, HX6 |-> 0],
       matchesWs |-> [CX4 |-> 0, HX6 |-> 0]],
      [response  |-> Body(<<Section(<<e_cxA, e_hxA>>)>>),
       matches   |-> [CX4 |-> 1, HX6 |-> 1],
       matchesWs |-> [CX4 |-> 1, HX6 |-> 1]],
      [response  |-> Body(<<Section(<<e_cxB>>), Junk, Section(<<e_tab, e_cxA, e_hxB>>)>>),
       matches   |-> [CX4 |-> 2, HX6 |-> 1],
       matchesWs |-> [CX4 |-> 3, HX6 |-> 1]],
      [response  |-> Body(<<Section(<<e_hxA, e_hxD>>)>>),
       matches   |-> [CX4 |-> 0, HX6 |-> 2],
       matchesWs |-> [CX4 |-> 0, HX6 |-> 2]],
      [response  |-> Body(<<Section(<<e_noflight, e_cxC, e_hxC>>)>>),
       matches   |-> [CX4 |-> 1, HX6 |-> 1],
       matchesWs |-> [CX4 |-> 1, HX6 |-> 1]]>>

---------------------------------------------------------------------------
(* main: the interactive loop                                              *)

NoOracle == [code |-> "none", matches |-> 0, matchesWs |-> 0, days |-> <<>>]

InitMain ==
    /\ mode = "D"
    /\ pc = "prompt"
    /\ flight_number = <<>>
    /\ today = <<1, 1, 1>>
    /\ idx = 0
    /\ all_flights = <<>>
    /\ outcome = NoOutcome
    /\ error = "none"
    /\ fetched = <<>>
    /\ nFailed = 0
    /\ oracle = NoOracle

IdleClassify ==
    /\ scheduled_time = NA
    /\ actual_time = NA
    /\ shape = <<>>
    /\ verdict = "pending"

Init == InitMain /\ IdleClassify

\* Lines 115-117: main returns, and its locals are gone with it.
Quit ==
    /\ pc = "prompt"
    /\ \E input \in ControlInputs : lower(strip(input)) = <<"q">>
    /\ pc' = "exited"
    /\ mode' = "D"
    /\ flight_number' = <<>>
    /\ today' = <<1, 1, 1>>
    /\ idx' = 0
    /\ all_flights' = <<>>
    /\ outcome' = NoOutcome
    /\ fetched' = <<>>
    /\ nFailed' = 0
    /\ oracle' = NoOracle
    /\ UNCHANGED error
    /\ UNCHANGED classifyVars

\* Lines 118-120
SetDeparture ==
    /\ pc = "prompt"
    /\ \E input \in ControlInputs : lower(strip(input)) = <<"d">>
    /\ mode' = "D"
    /\ UNCHANGED <<pc, flight_number, today, idx, all_flights, outcome, error,
                   fetched, nFailed, oracle>>
    /\ UNCHANGED classifyVars

\* Lines 121-123
SetArrival ==
    /\ pc = "prompt"
    /\ \E input \in ControlInputs : lower(strip(input)) = <<"a">>
    /\ mode' = "A"
    /\ UNCHANGED <<pc, flight_number, today, idx, all_flights, outcome, error,
                   fetched, nFailed, oracle>>
    /\ UNCHANGED classifyVars

\* Lines 124-126
EmptyInput ==
    /\ pc = "prompt"
    /\ \E input \in ControlInputs :
          /\ lower(strip(input)) \notin {<<"q">>, <<"d">>, <<"a">>}
          /\ strip(input) = <<>>
    /\ UNCHANGED mainVars
    /\ UNCHANGED classifyVars

\* Lines 128-135: a flight number was typed.
StartQuery ==
    /\ pc = "prompt"
    /\ \E r \in 1..Len(Requests), t \in Todays :
          LET input_str == strip(Requests[r].text)
          IN  /\ lower(input_str) \notin {<<"q">>, <<"d">>, <<"a">>}
              /\ input_str # <<>>
              /\ flight_number' = replace_space(input_str)
              /\ today' = t
              /\ oracle' = [code |-> Requests[r].code, matches |-> 0,
                            matchesWs |-> 0, days |-> <<>>]
    /\ pc' = "fetching"
    /\ idx' = 0
    /\ all_flights' = <<>>
    /\ outcome' = NoOutcome
    /\ fetched' = <<>>
    /\ nFailed' = 0
    /\ UNCHANGED <<mode, error>>
    /\ UNCHANGED classifyVars

\* Lines 139-169 for the next date of the window and, after the last date,
\* lines 175-217.
FetchDate ==
    /\ pc = "fetching"
    /\ \E r \in 1..Len(Responses) :
          LET resp    == Responses[r].response
              dates   == get_past_dates(today, WindowDays)
              date    == dates[idx + 1]
              arrival == arrival_param(mode)
              got     == fetch_flight_data(resp, flight_number)
              done    == append_flights(got.flights, date, flight_number, arrival)
              raised  == IF got.raised # "none" THEN got.raised ELSE done.raised
              records == IF got.raised # "none" THEN all_flights
                         ELSE all_flights \o done.recs
          IN  /\ resp.kind = "error" => nFailed < MaxFailures
              /\ got.flights # <<>> =>
                    Cardinality({all_flights[i].date : i \in 1..Len(all_flights)})
                        < MaxMatchDates
              /\ fetched' = Append(fetched, idx + 1)
              /\ idx' = idx + 1
              /\ nFailed' = IF resp.kind = "error" THEN nFailed + 1 ELSE nFailed
              /\ oracle' = [code      |-> oracle.code,
                            matches   |-> oracle.matches
                                          + Responses[r].matches[oracle.code],
                            matchesWs |-> oracle.matchesWs
                                          + Responses[r].matchesWs[oracle.code],
                            days      |-> oracle.days \o
                                          [k \in 1..Responses[r].matches[oracle.code]
                                             |-> idx + 1]]
              /\ all_flights' = records
              /\ error' = raised
              /\ pc' = IF raised # "none" THEN "crashed"
                       ELSE IF idx + 1 = WindowDays THEN "prompt" ELSE "fetching"
              /\ outcome' = IF raised = "none" /\ idx + 1 = WindowDays
                            THEN display(records, mode, flight_number)
                            ELSE outcome
    /\ UNCHANGED <<mode, flight_number, today>>
    /\ UNCHANGED classifyVars

Next == Quit \/ SetDeparture \/ SetArrival \/ EmptyInput \/ StartQuery \/ FetchDate

Spec == Init /\ [][Next]_vars

---------------------------------------------------------------------------
(* is_on_time on its own                                                   *)

\* Arguments of is_on_time, each with the way it was written: kind "hhmm" is
\* a two-digit hour 00-23 and a two-digit minute 00-59; "range" has two
\* numeric fields that are no clock time; "loose" has two fields int()
\* accepts but not two digits each; "na" is the literal N/A; "fields" has
\* not exactly two fields; "text" has a field that is no number.  h and m are
\* the numbers written, where there are two.
TimeInputs ==
    <<[text |-> hhmm(14, 25), kind |-> "hhmm", h |-> 14, m |-> 25],
      [text |-> hhmm(14, 22), kind |-> "hhmm", h |-> 14, m |-> 22],
      [text |-> hhmm(14, 40), kind |-> "hhmm", h |-> 14, m |-> 40],
      [text |-> hhmm(14, 41), kind |-> "hhmm", h |-> 14, m |-> 41],
      [text |-> hhmm(0, 5),   kind |-> "hhmm", h |-> 0,  m |-> 5],
      [text |-> hhmm(23, 55), kind |-> "hhmm", h |-> 23, m |-> 55],
      [text |-> hhmm(9, 50),  kind |-> "hhmm", h |-> 9,  m |-> 50],
      [text |-> hhmm(10, 5),  kind |-> "hhmm", h |-> 10, m |-> 5],
      [text |-> NA,           kind |-> "na",   h |-> 0,  m |-> 0],
      [text |-> <<"b", "a", "d">>, kind |-> "text", h |-> 0, m |-> 0],
      [text |-> <<"1", "4", ":", "2", "x">>, kind |-> "text", h |-> 0, m |-> 0],
      [text |-> <<":", "2", "5">>, kind |-> "text", h |-> 0, m |-> 0],
      [text |-> <<"1", "4", "2", "5">>, kind |-> "fields", h |-> 0, m |-> 0],
      [text |-> hhmm(14, 25) \o <<":", "0", "0">>, kind |-> "fields", h |-> 0, m |-> 0],
      [text |-> <<>>,         kind |-> "fields", h |-> 0, m |-> 0],
      [text |-> hhmm(25, 99), kind |-> "range", h |-> 25, m |-> 99],
      [text |-> hhmm(24, 0),  kind |-> "range", h |-> 24, m |-> 0],
      [text |-> hhmm(14, 60), kind |-> "range", h |-> 14, m |-> 60],
      [text |-> <<"7", ":", "5">>, kind |-> "loose", h |-> 7, m |-> 5],
      [text |-> <<" ", "1", "4", ":", "2", "5", " ">>, kind |-> "loose", h |-> 14, m |-> 25],
      [text |-> <<"+", "1", "4", ":", "1", "_", "0">>, kind |-> "loose", h |-> 14, m |-> 10],
      [text |-> <<"-", "1", ":", "3", "0">>, kind |-> "loose", h |-> 0 - 1, m |-> 30]>>

Shape(i) == [kind |-> TimeInputs[i].kind, h |-> TimeInputs[i].h, m |-> TimeInputs[i].m]

InitClassify ==
    /\ InitMain
    /\ \E i, j \in 1..Len(TimeInputs) :
          /\ scheduled_time = TimeInputs[i].text
          /\ actual_time = TimeInputs[j].text
          /\ shape = <<Shape(i), Shape(j)>>
    /\ verdict = "pending"

\* The call is_on_time(scheduled_time, actual_time).
Classify ==
    /\ verdict = "pending"
    /\ verdict' = is_on_time(scheduled_time, actual_time)
    /\ UNCHANGED <<scheduled_time, actual_time, shape>>
    /\ UNCHANGED mainVars

NextClassify == Classify

SpecClassify == InitClassify /\ [][NextClassify]_vars

---------------------------------------------------------------------------
(* The display of a result set on its own                                  *)

\* The longest result set tried.
MaxSortLen == 4

\* The result sets hold dates of the days SortLatest, the day before, ...
MaxSortAge == 3

SortLatest == <<2026, 1, 1>>

\* A record of the day age days before SortLatest, whose status names the
\* position tag at which it was appended.
SortRecord(age, tag) ==
    flight_info([flight |-> <<[no |-> CX_4]>>, status |-> <<DigitChar(tag)>>,
                 time |-> hhmm(14, 25), destination |-> <<ICN>>],
                strftime(MinusDays(SortLatest, age)), cx4, "false")

InitSort ==
    /\ mode = "D"
    /\ pc = "display"
    /\ flight_number = cx4
    /\ today = SortLatest
    /\ idx = WindowDays
    /\ \E n \in 1..MaxSortLen :
          \E ages \in [1..n -> 0..MaxSortAge] :
             all_flights = [i \in 1..n |-> SortRecord(ages[i], i)]
    /\ outcome = NoOutcome
    /\ error = "none"
    /\ fetched = <<>>
    /\ nFailed = 0
    /\ oracle = NoOracle
    /\ IdleClassify

\* Lines 175-217 on the result set all_flights.
Display ==
    /\ pc = "display"
    /\ outcome' = display(all_flights, mode, flight_number)
    /\ pc' = "prompt"
    /\ UNCHANGED <<mode, flight_number, today, idx, all_flights, error,
                   fetched, nFailed, oracle>>
    /\ UNCHANGED classifyVars

NextSort == Display

SpecSort == InitSort /\ [][NextSort]_vars

---------------------------------------------------------------------------
(* Properties                                                              *)

\* The query that was started has run through its window and printed.
Finished == pc = "prompt" /\ outcome.kind # "none"

\* The date at position i of the window of the running query.
WindowDate(i) == strftime(MinusDays(today, i - 1))

\* C1: a fetch that fails adds no record and does not end the window: the
\* step goes on to the next date with the result set as it was and no
\* exception; a finished query has fetched each of the 10 dates once, in
\* order, and its result set holds one record per matching entry of the dates
\* fetched successfully, each under its date.
C1_PartialFailure ==
    /\ [][(pc = "fetching" /\ nFailed' = nFailed + 1) =>
            /\ all_flights' = all_flights
            /\ error' = "none"
            /\ pc' # "crashed"
            /\ fetched' = Append(fetched, idx + 1)]_vars
    /\ [](Finished =>
            /\ fetched = <<1, 2, 3, 4, 5, 6, 7, 8, 9, 10>>
            /\ Len(all_flights) = Len(oracle.days)
            /\ \A i \in 1..Len(all_flights) :
                  all_flights[i].date = WindowDate(oracle.days[i]))

\* Three fetches of a finished window failed and records of other dates are
\* in the result set.
C1_Witness == Finished /\ nFailed = 3 /\ outcome.kind = "found" /\ all_flights # <<>>

\* The verdict the arithmetic on the written hours and minutes gives.
ExpectedVerdict ==
    IF shape[2].h * 60 + shape[2].m <= shape[1].h * 60 + shape[1].m + 15
    THEN "On Time" ELSE "Delayed"

\* C2: on two well-formed HH:MM arguments the verdict is On Time exactly when
\* the actual minute of the day is at most the scheduled one plus 15, and
\* Delayed otherwise.
C2_Threshold ==
    (verdict # "pending" /\ shape[1].kind = "hhmm" /\ shape[2].kind = "hhmm")
        => verdict = ExpectedVerdict

\* Scheduled 14:25 and actual 14:40, exactly 15 minutes late: On Time.
C2_Witness ==
    /\ verdict = "On Time"
    /\ shape = <<[kind |-> "hhmm", h |-> 14, m |-> 25], [kind |-> "hhmm", h |-> 14, m |-> 40]>>

Unparsable == {"na", "text", "fields"}

\* C3 as stated: an argument that is N/A or is no well-formed 24-hour HH:MM
\* string gives Unknown.
C3_MalformedIsUnknown ==
    (verdict # "pending" /\ (shape[1].kind # "hhmm" \/ shape[2].kind # "hhmm"))
        => verdict = "Unknown"

\* C3, amended: is_on_time always returns one of its three verdicts; it
\* returns Unknown exactly when an argument is N/A or does not consist of two
\* ":"-separated fields that int() accepts; two numeric fields that are no
\* clock time (25:99) or are not two digits each (7:5) are compared like any
\* other.
C3_UnparsableIsUnknown ==
    verdict # "pending" =>
        /\ verdict \in {"On Time", "Delayed", "Unknown"}
        /\ (shape[1].kind \in Unparsable \/ shape[2].kind \in Unparsable)
              => verdict = "Unknown"
        /\ (shape[1].kind \notin Unparsable /\ shape[2].kind \notin Unparsable)
              => verdict = ExpectedVerdict

\* The scheduled time is well formed, the actual time is the text "bad", and
\* the verdict is Unknown.
C3_Witness ==
    /\ verdict = "Unknown"
    /\ shape[1].kind = "hhmm"
    /\ actual_time = <<"b", "a", "d">>

\* C4 as stated: the entries selected are those with an alias equal to the
\* request when all whitespace and case are ignored.
C4_MatchIgnoringWhitespace ==
    error = "none" => Len(all_flights) = oracle.matchesWs

\* C4, amended: the entries selected are those with an alias equal to the
\* request when space characters and case are ignored, each once however
\* many of its aliases are equal; a tab inside a code is not removed.
C4_MatchIgnoringSpaces ==
    error = "none" => Len(all_flights) = oracle.matches

\* The request " cx 4" has selected, on one date, the entry listed as "CX 4"
\* and the codeshare entry that lists both "cx4" and "CX 4", once each.
C4_Witness ==
    /\ error = "none"
    /\ oracle.code = "CX4"
    /\ flight_number = cx4
    /\ Len(all_flights) = 2
    /\ all_flights[1].date = all_flights[2].date

\* The records in hand with the mode they were built in: the result set of
\* the running query, and the rows of the last finished query.
BuiltRecords ==
    {<<all_flights[i], mode>> : i \in {j \in 1..Len(all_flights) : pc = "fetching"}}
        \cup {<<outcome.rows[i], outcome.mode>> : i \in 1..Len(outcome.rows)}

\* C5 as stated: the fields of the other direction are absent from a record.
C5_OtherFieldsAbsent ==
    \A b \in BuiltRecords :
        /\ b[2] = "A" => {"aisle", "gate"} \cap DOMAIN b[1] = {}
        /\ b[2] = "D" => {"baggage", "hall", "stand"} \cap DOMAIN b[1] = {}

\* C5, amended: a record built in Arrival mode carries aisle and gate as
\* None and one built in Departure mode carries baggage, hall and stand as
\* None: the keys are present, and never hold a value of the entry or "N/A".
C5_OtherFieldsNone ==
    \A b \in BuiltRecords :
        /\ b[2] = "A" => b[1].aisle = None /\ b[1].gate = None
        /\ b[2] = "D" => b[1].baggage = None /\ b[1].hall = None /\ b[1].stand = None

\* An Arrival query showed the entry that has both a baggage belt and a
\* gate, and the mode was switched to Departure afterwards.
C5_Witness ==
    /\ outcome.kind = "found" /\ outcome.mode = "A" /\ mode = "D"
    /\ \E i \in 1..Len(outcome.rows) : outcome.rows[i].baggage = <<"9">>

\* C6: the summary location of a found result is the common location when
\* the records share one, and "Varies" when they have two or more; the
\* summary scheduled time follows the same rule on the scheduled times.
C6_Summary ==
    outcome.kind = "found" =>
        LET locs  == {all_flights[i].location : i \in 1..Len(all_flights)}
            times == {all_flights[i].scheduled_time : i \in 1..Len(all_flights)}
        IN  /\ Cardinality(locs) = 1 => outcome.location \in locs
            /\ Cardinality(locs) >= 2 => outcome.location = Varies
            /\ Cardinality(times) = 1 => outcome.scheduled_time \in times
            /\ Cardinality(times) >= 2 => outcome.scheduled_time = Varies

\* Two records share the location ICN and differ in scheduled time: the
\* summary shows ICN and "Varies".
C6_Witness ==
    /\ outcome.kind = "found"
    /\ Len(all_flights) = 2
    /\ outcome.location = ICN
    /\ outcome.scheduled_time = Varies

\* The number of days before SortLatest of the date of a record, and the
\* position at which the record was appended.
AgeOf(r) == CHOOSE a \in 0..MaxSortAge : strftime(MinusDays(SortLatest, a)) = r.date

TagOf(r) == DigitVal(r.status[1])

\* C7: the rows displayed are the records of the result set, each once, the
\* most recent date first, and records of one date in the order in which
\* they were appended.
C7_DisplayOrder ==
    (pc = "prompt" /\ outcome.kind = "found") =>
        LET rows == outcome.rows
        IN  /\ Len(rows) = Len(all_flights)
            /\ {TagOf(rows[i]) : i \in 1..Len(rows)} = 1..Len(all_flights)
            /\ \A i \in 1..Len(rows) : rows[i] = all_flights[TagOf(rows[i])]
            /\ \A i, j \in 1..Len(rows) :
                  i < j => /\ AgeOf(rows[i]) <= AgeOf(rows[j])
                           /\ AgeOf(rows[i]) = AgeOf(rows[j])
                                 => TagOf(rows[i]) < TagOf(rows[j])

\* A result set appended oldest first, with two records of one date: the
\* display reordered it and kept the two in their order.
C7_Witness ==
    /\ pc = "prompt" /\ outcome.kind = "found"
    /\ Len(all_flights) >= 3
    /\ AgeOf(all_flights[1]) > AgeOf(all_flights[2])
    /\ AgeOf(all_flights[2]) = AgeOf(all_flights[3])
    /\ outcome.rows # all_flights

\* C8: when the last date of a window has been fetched and no entry of any
\* date matched, the query prints "not found", computes no summary location
\* or scheduled time, raises nothing, and is back at the prompt in the mode
\* it ran in.
C8_NotFound ==
    [][(pc = "fetching" /\ idx' = 10 /\ oracle'.matches = 0) =>
          /\ outcome'.kind = "not_found"
          /\ outcome'.location = None
          /\ outcome'.scheduled_time = None
          /\ outcome'.rows = <<>>
          /\ error' = "none"
          /\ pc' = "prompt"
          /\ mode' = mode]_vars

\* An Arrival query in which three fetches failed and nothing matched ended
\* "not found", back at the prompt.
C8_Witness ==
    /\ pc = "prompt" /\ mode = "A"
    /\ outcome.kind = "not_found" /\ outcome.mode = "A"
    /\ nFailed = 3

\* C9 as stated: whatever the payload of a date holds, no exception reaches
\* the interactive loop.
C9_NoException == error = "none" /\ pc # "crashed"

\* The entries of the responses that carry a flight code.
ListedEntries == <<e_cxA, e_cxB, e_cxC, e_hxA, e_hxB, e_hxC, e_hxD, e_tab, e_other>>

\* The actual time the rule of C10 gives for an entry in mode m.
ClaimedActualTime(e, m) ==
    IF m = "A" /\ contains(status_of(e), AtGateSp)
    THEN SubSeq(status_of(e), Min(Occurrences(status_of(e), AtGateSp)) + Len(AtGateSp),
                Len(status_of(e)))
    ELSE IF m = "D" /\ startswith(status_of(e), DepSp)
    THEN split_ws(status_of(e))[2]
    ELSE Get(e, "actualTime", NA)

\* C10 as stated: the actual time of every record of the running query is
\* the one the direction's rule gives for its entry: after "At gate " for an
\* Arrival, the second token of a "Dep " status for a Departure, else the
\* entry's actualTime field, else "N/A".
C10_ActualTimeRule ==
    pc = "fetching" =>
        \A i \in 1..Len(all_flights) :
            \E k \in 1..Len(ListedEntries) :
                /\ status_of(ListedEntries[k]) = all_flights[i].status
                /\ scheduled_of(ListedEntries[k]) = all_flights[i].scheduled_time
                /\ all_flights[i].actual_time = ClaimedActualTime(ListedEntries[k], mode)

===========================================================================
